---- MODULE Spec2Model ----
(***************************************************************************)
(* Exercise tracker (Express + Mongoose): the four request handlers, the   *)
(* date and duration helpers and the log filter, as a state machine over   *)
(* the User and Exercise collections.                                       *)
(*                                                                         *)
(* Conventions.  A JavaScript value is a record [t, s, m, e]: t is the     *)
(* type tag ("undef", "str", "num", "nan", "obj"), s the characters of a   *)
(* string (a sequence of one-character strings), and m, e the decimal      *)
(* number m / 10^e.  Instants are minutes since the epoch (the code's      *)
(* milliseconds divided by 60000); a timezone offset is the value of       *)
(* Date.prototype.getTimezoneOffset(), minutes, UTC minus local time.      *)
(***************************************************************************)
EXTENDS Integers, Sequences, FiniteSets, TLC

\* ------------------------------------------------------------------ bounds

\* longest enumerated duration string of the validator's specification
MaxStrLen == 3
\* most User documents the store holds
MaxUsers == 2
\* most Exercise documents the store holds
MaxExercises == 2

\* ------------------------------------------------------- JavaScript values

Undef == [t |-> "undef", s |-> << >>, m |-> 0, e |-> 0]
NaN == [t |-> "nan", s |-> << >>, m |-> 0, e |-> 0]
\* a plain object or array (a JSON body field, or a[]=.. in a urlencoded one)
Obj == [t |-> "obj", s |-> << >>, m |-> 0, e |-> 0]
Str(chars) == [t |-> "str", s |-> chars, m |-> 0, e |-> 0]

RECURSIVE Pow10(_)
Pow10(k) == IF k = 0 THEN 1 ELSE 10 * Pow10(k - 1)

\* the number m / 10^e, in lowest decimal form
RECURSIVE Num(_, _)
Num(m, e) ==
  IF e > 0 /\ m % 10 = 0 THEN Num(m \div 10, e - 1)
  ELSE [t |-> "num", s |-> << >>, m |-> m, e |-> e]

IntV(k) == Num(k, 0)

\* a <= b on numbers; any comparison with NaN is false
NumLE(a, b) ==
  /\ a.t = "num"
  /\ b.t = "num"
  /\ a.m * Pow10(b.e) <= b.m * Pow10(a.e)

IsInteger(a) == a.t = "num" /\ a.e = 0

\* ToBoolean
Truthy(v) ==
  CASE v.t = "undef" -> FALSE
    [] v.t = "nan" -> FALSE
    [] v.t = "str" -> v.s # << >>
    [] v.t = "num" -> v.m # 0
    [] OTHER -> TRUE

DigitChars == <<"0", "1", "2", "3", "4", "5", "6", "7", "8", "9">>
IsDigit(c) == \E i \in 1..10 : DigitChars[i] = c
DigitVal(c) == (CHOOSE i \in 1..10 : DigitChars[i] = c) - 1
IsSpace(c) == c = " "

\* the decimal digits of a natural number
RECURSIVE NatChars(_)
NatChars(k) ==
  IF k < 10 THEN <<DigitChars[k + 1]>>
  ELSE NatChars(k \div 10) \o <<DigitChars[(k % 10) + 1]>>

\* the decimal digits of k, zero-padded on the left to w characters
RECURSIVE PadChars(_, _)
PadChars(k, w) ==
  LET d == NatChars(k) IN
  IF Len(d) >= w THEN d ELSE <<"0">> \o PadChars(k, w - 1)

\* the value of a sequence of digits
RECURSIVE DigitsVal(_)
DigitsVal(ds) ==
  IF ds = << >> THEN 0
  ELSE 10 * DigitsVal(SubSeq(ds, 1, Len(ds) - 1)) + DigitVal(ds[Len(ds)])

Abs(k) == IF k < 0 THEN 0 - k ELSE k
Min(a, b) == IF a < b THEN a ELSE b
Max(a, b) == IF a > b THEN a ELSE b

\* ToString: what parseInt and a template literal see of a value
ToStringChars(v) ==
  CASE v.t = "str" -> v.s
    [] v.t = "num" ->
         LET a == Abs(v.m)
             sign == IF v.m < 0 THEN <<"-">> ELSE << >>
         IN  IF v.e = 0 THEN sign \o NatChars(a)
             ELSE sign \o NatChars(a \div Pow10(v.e)) \o <<".">>
                       \o PadChars(a % Pow10(v.e), v.e)
    [] v.t = "undef" -> <<"u", "n", "d", "e", "f", "i", "n", "e", "d">>
    [] v.t = "nan" -> <<"N", "a", "N">>
    [] OTHER -> <<"[", "o", "b", "j", "e", "c", "t", "]">>

\* s without its leading white space
RECURSIVE TrimLeft(_)
TrimLeft(s) ==
  IF s # << >> /\ IsSpace(s[1]) THEN TrimLeft(Tail(s)) ELSE s

RECURSIVE TrimRight(_)
TrimRight(s) ==
  IF s # << >> /\ IsSpace(s[Len(s)])
  THEN TrimRight(SubSeq(s, 1, Len(s) - 1)) ELSE s

\* the longest prefix of s made of digits
RECURSIVE DigitPrefix(_)
DigitPrefix(s) ==
  IF s # << >> /\ IsDigit(s[1]) THEN <<s[1]>> \o DigitPrefix(Tail(s)) ELSE << >>

\* parseInt(v, 10): the string of v, leading white space skipped, an optional
\* sign, then the longest run of digits; NaN when there is no digit
ParseInt(v) ==
  LET str == TrimLeft(ToStringChars(v))
      neg == str # << >> /\ str[1] = "-"
      signed == str # << >> /\ str[1] \in {"-", "+"}
      rest == IF signed THEN Tail(str) ELSE str
      ds == DigitPrefix(rest)
  IN  IF ds = << >> THEN NaN
      ELSE IntV(IF neg THEN 0 - DigitsVal(ds) ELSE DigitsVal(ds))

\* Number(string): the whole trimmed string is a decimal literal
\* ([sign] digits [. [digits]] or [sign] . digits), else NaN; "" is 0
StringToNumber(chars) ==
  LET str == TrimRight(TrimLeft(chars))
      neg == str # << >> /\ str[1] = "-"
      signed == str # << >> /\ str[1] \in {"-", "+"}
      rest == IF signed THEN Tail(str) ELSE str
      ip == DigitPrefix(rest)
      after == SubSeq(rest, Len(ip) + 1, Len(rest))
      dotted == after # << >> /\ after[1] = "."
      fp == IF dotted THEN DigitPrefix(Tail(after)) ELSE << >>
      used == Len(ip) + (IF dotted THEN 1 + Len(fp) ELSE 0)
      mag == DigitsVal(ip) * Pow10(Len(fp)) + DigitsVal(fp)
  IN  IF str = << >> THEN IntV(0)
      ELSE IF used # Len(rest) \/ (ip = << >> /\ fp = << >>) THEN NaN
      ELSE Num(IF neg THEN 0 - mag ELSE mag, Len(fp))

\* ------------------------------------------------------------------ dates

\* a Date object: an instant (minutes since the epoch), or Invalid Date
InvalidDate == [ok |-> FALSE, t |-> 0]
DateAt(t) == [ok |-> TRUE, t |-> t]

WeekdayNames == <<"Sun", "Mon", "Tue", "Wed", "Thu", "Fri", "Sat">>
MonthNames == <<"Jan", "Feb", "Mar", "Apr", "May", "Jun",
                "Jul", "Aug", "Sep", "Oct", "Nov", "Dec">>

\* days from 1970-01-01 to the proleptic Gregorian day y-m-d (m in 1..12)
DaysFromCivil(y, m, d) ==
  LET yy == IF m <= 2 THEN y - 1 ELSE y
      era == yy \div 400
      yoe == yy - era * 400
      mp == IF m > 2 THEN m - 3 ELSE m + 9
      doy == (153 * mp + 2) \div 5 + d - 1
      doe == yoe * 365 + yoe \div 4 - yoe \div 100 + doy
  IN  era * 146097 + doe - 719468

\* the calendar day, and the weekday (0 is Sunday), of a day number
CivilFromDays(z) ==
  LET zz == z + 719468
      era == zz \div 146097
      doe == zz - era * 146097
      yoe == (doe - doe \div 1460 + doe \div 36524 - doe \div 146096) \div 365
      doy == doe - (365 * yoe + yoe \div 4 - yoe \div 100)
      mp == (5 * doy + 2) \div 153
      d == doy - (153 * mp + 2) \div 5 + 1
      m == IF mp < 10 THEN mp + 3 ELSE mp - 9
      y == yoe + era * 400 + (IF m <= 2 THEN 1 ELSE 0)
  IN  [y |-> y, m |-> m, d |-> d, wd |-> (z + 4) % 7]

IsLeap(y) == (y % 4 = 0 /\ y % 100 # 0) \/ y % 400 = 0
DaysInMonth(y, m) ==
  IF m = 2 THEN (IF IsLeap(y) THEN 29 ELSE 28)
  ELSE IF m \in {4, 6, 9, 11} THEN 30 ELSE 31

\* new Date(Date.UTC(year, month, day)): month is 0-based and carries into
\* the year, day carries into the month, a year of 0..99 means 1900 + year,
\* a NaN field gives Invalid Date
DateUTC(year, month, day) ==
  IF year.t = "nan" \/ month.t = "nan" \/ day.t = "nan" THEN InvalidDate
  ELSE LET y0 == IF year.m >= 0 /\ year.m <= 99 THEN 1900 + year.m ELSE year.m
           ym == y0 + month.m \div 12
           mn == month.m % 12
       IN  DateAt((DaysFromCivil(ym, mn + 1, 1) + day.m - 1) * 1440)

\* the display string of a Date, as its four fields; the local calendar day
\* of the instant in a server whose getTimezoneOffset() is tzo
InvalidDisplay == [wd |-> "Invalid", mon |-> "Date", dd |-> << >>, yyyy |-> << >>]
toDateStringUTC(date, tzo) ==
  IF ~date.ok THEN InvalidDisplay
  ELSE LET c == CivilFromDays(date.t \div 1440) IN
       [wd |-> WeekdayNames[c.wd + 1], mon |-> MonthNames[c.m],
        dd |-> PadChars(c.d, 2), yyyy |-> PadChars(c.y, 4)]

toDateString(date, tzo) ==
  IF ~date.ok THEN InvalidDisplay
  ELSE LET c == CivilFromDays((date.t - tzo) \div 1440) IN
       [wd |-> WeekdayNames[c.wd + 1], mon |-> MonthNames[c.m],
        dd |-> PadChars(c.d, 2), yyyy |-> PadChars(c.y, 4)]

\* new Date("Sun Jan 01 2023"): the legacy parser reads month, day and year
\* (the weekday is skipped) as local time, midnight
ParseDisplay(disp, tzo) ==
  IF ~(\E i \in 1..12 : MonthNames[i] = disp.mon) THEN InvalidDate
  ELSE LET mi == CHOOSE i \in 1..12 : MonthNames[i] = disp.mon IN
       DateAt(DaysFromCivil(DigitsVal(disp.yyyy), mi, DigitsVal(disp.dd)) * 1440
              + tzo)

\* String.prototype.split on one separator character
RECURSIVE Split(_, _)
Split(s, sep) ==
  IF \E i \in 1..Len(s) : s[i] = sep
  THEN LET i == CHOOSE k \in 1..Len(s) :
                  s[k] = sep /\ \A j \in 1..(k - 1) : s[j] # sep
       IN  <<SubSeq(s, 1, i - 1)>> \o Split(SubSeq(s, i + 1, Len(s)), sep)
  ELSE <<s>>

\* parts[i], undefined past the end of the array
Part(parts, i) == IF i <= Len(parts) THEN Str(parts[i]) ELSE Undef

AllDigits(s) == \A i \in 1..Len(s) : IsDigit(s[i])

\* new Date("YYYY-MM-DD"): the date-only ISO form is UTC midnight of that
\* day.  Defined on that form; any other string is Invalid Date here.
ParseISODate(chars) ==
  LET parts == Split(chars, "-") IN
  IF /\ Len(parts) = 3
     /\ Len(parts[1]) = 4 /\ Len(parts[2]) = 2 /\ Len(parts[3]) = 2
     /\ AllDigits(parts[1]) /\ AllDigits(parts[2]) /\ AllDigits(parts[3])
     /\ DigitsVal(parts[2]) \in 1..12
     /\ DigitsVal(parts[3]) \in 1..DaysInMonth(DigitsVal(parts[1]), DigitsVal(parts[2]))
  THEN DateAt(DaysFromCivil(DigitsVal(parts[1]), DigitsVal(parts[2]),
                            DigitsVal(parts[3])) * 1440)
  ELSE InvalidDate

\* "YYYY-MM-DD"
IsoChars(y, m, d) ==
  PadChars(y, 4) \o <<"-">> \o PadChars(m, 2) \o <<"-">> \o PadChars(d, 2)

\* number - 1
Minus1(v) == IF v.t = "nan" THEN NaN ELSE IntV(v.m - 1)

\* checkDate of a date that is a string (split is a method of strings only);
\* now is Date.now()
checkDate(date, now, tzo) ==
  IF ~Truthy(date) THEN toDateString(DateAt(now), tzo)
  ELSE LET parts == Split(date.s, "-")
           year == ParseInt(Part(parts, 1))
           month == Minus1(ParseInt(Part(parts, 2)))
           day == ParseInt(Part(parts, 3))
           utcDate == DateUTC(year, month, day)
       IN  IF ~utcDate.ok THEN InvalidDisplay
           ELSE toDateString(DateAt(utcDate.t + tzo), tzo)

\* ---------------------------------------------------------------- helpers

isValidDuration(duration) ==
  LET numericValue == ParseInt(duration) IN
  /\ numericValue.t # "nan"
  /\ NumLE(IntV(0), numericValue)
  /\ NumLE(numericValue, IntV(600))

\* ------------------------------------------------------------------ inputs

\* getTimezoneOffset() of the server: UTC+2, UTC, UTC-5 (no daylight saving)
TzOffsets == {0 - 120, 0, 300}

\* Date.now() when a request arrives: 2023-05-01T12:00Z
ClockInstants == {DaysFromCivil(2023, 5, 1) * 1440 + 720}

\* ids a client sends: the ObjectIds the store hands out are 1, 2, ...; an id
\* outside ObjectIds is a string that is no ObjectId ("abc")
ObjectIds == 1..MaxUsers
MalformedIds == {0}
IdInputs == ObjectIds \cup MalformedIds

Run == Str(<<"r", "u", "n">>)
Alice == Str(<<"A", "l">>)
UsernameInputs == {Undef, Alice}
DescriptionInputs == {Undef, Run}
DurationInputs ==
  {IntV(0), IntV(30), Str(<<"6", "0", "0", ".", "5">>),
   Str(<<"6", "0", "1">>), Str(<<"1", "a">>)}
Jan01 == Str(IsoChars(2023, 1, 1))
Jan31 == Str(IsoChars(2023, 1, 31))
DateInputs == {Undef, Jan01, Jan31, Obj}
RangeInputs == {Undef, Jan01, Jan31}
LimitInputs == {Undef, Str(<<"0">>), Str(<<"1">>), Str(<<"5">>)}

\* ------------------------------------------------------------------- state

VARIABLES
  tz,         \* the server's timezone offset
  users,      \* the User collection, in insertion order
  exercises,  \* the Exercise collection, in insertion order
  pend,       \* per handler invocation: where it is suspended, and its locals
  resp,       \* the request that ended last and how; none while one is being handled
  added,      \* history: per user id, the Add Exercise requests answered with success
  arg,        \* validator specification: the argument
  ret         \* validator specification: the returned value

vars == <<tz, users, exercises, pend, resp, added, arg, ret>>

Procs == {1, 2}
SeqProcs == {1}

NoDoc == [id |-> 0]
IdlePend ==
  [pc |-> "idle", id |-> 0, description |-> Undef, duration |-> Undef,
   rawDate |-> Undef, date |-> InvalidDisplay, user |-> NoDoc,
   newExercise |-> NoDoc, failed |-> FALSE]

NoReq == [op |-> "none"]
NoResp == [req |-> NoReq, kind |-> "none", text |-> "", body |-> << >>,
           failed |-> FALSE]

AllIdle == \A p \in Procs : pend[p].pc = "idle"

\* no request is being handled and no response is on its way to a client
Quiet == AllIdle /\ resp = NoResp

\* ------------------------------------------------------ the store (Mongoose)

\* mongoose.Types.ObjectId.isValid
ObjectIdIsValid(id) == id \notin MalformedIds

\* findOne / findById by _id: the document, or null
HasUser(id) == \E i \in 1..Len(users) : users[i].id = id
FindUser(id) == users[CHOOSE i \in 1..Len(users) : users[i].id = id]

\* SchemaString cast: a number is stringified, an object is a CastError
CanCastString(v) == v.t \in {"str", "num", "undef"}
CastString(v) == IF v.t = "num" THEN Str(ToStringChars(v)) ELSE v

\* SchemaNumber cast: Number(string); NaN and objects are a CastError
CastNumber(v) == IF v.t = "str" THEN StringToNumber(v.s) ELSE v
CanCastNumber(v) == CastNumber(v).t \in {"num", "undef"}

\* SchemaDate cast of a string: new Date(string); Invalid Date is a CastError
CastDate(disp, tzo) == ParseDisplay(disp, tzo)

\* required: true on a String path
RequiredOk(v) == v.t = "str" /\ v.s # << >>

\* ---------------------------------------------------------------- responses

Text(req, text, failed) ==
  [req |-> req, kind |-> "text", text |-> text, body |-> << >>, failed |-> failed]
Message(req, text, failed) ==
  [req |-> req, kind |-> "message", text |-> text, body |-> << >>, failed |-> failed]
Object(req, body) ==
  [req |-> req, kind |-> "object", text |-> "", body |-> body, failed |-> FALSE]
\* an exception leaves the async handler: res.json is never called
Uncaught(req) ==
  [req |-> req, kind |-> "uncaught", text |-> "", body |-> << >>, failed |-> FALSE]

\* ---------------------------------------------------------- POST /api/users

\* outcome is what the store does with a valid document: it inserts it, it
\* reports a duplicate key (code 11000), or it fails otherwise
CreateUser(username, outcome) ==
  LET req == [op |-> "create", username |-> username]
      valid == CanCastString(username) /\ RequiredOk(CastString(username))
      id == Len(users) + 1
  IN  /\ (valid /\ outcome = "ok") => Len(users) < MaxUsers
      /\ IF valid /\ outcome = "ok"
         THEN /\ users' = Append(users, [id |-> id, username |-> CastString(username),
                                         log |-> << >>])
              /\ resp' = Object(req, [username |-> CastString(username), id |-> id])
         ELSE /\ users' = users
              /\ resp' = IF valid /\ outcome = "dup"
                         THEN Message(req, "Duplicate record.", TRUE)
                         ELSE Message(req, "Unable to create new user.",
                                      valid /\ outcome # "ok")
      /\ UNCHANGED <<tz, exercises, pend, added, arg, ret>>

\* ----------------------------------------------------------- GET /api/users

\* (the __v counter each element also carries is left out)
ListUsers(ok) ==
  LET req == [op |-> "list"] IN
  /\ resp' = IF ok
             THEN Object(req, [i \in 1..Len(users) |->
                                 [username |-> users[i].username, id |-> users[i].id]])
             ELSE Text(req, "Unable to fetch all users.", TRUE)
  /\ UNCHANGED <<tz, users, exercises, pend, added, arg, ret>>

\* ------------------------------------------ POST /api/users/:_id/exercises

AddReq(q) ==
  [op |-> "add", id |-> q.id, description |-> q.description,
   duration |-> q.duration, date |-> q.rawDate]

\* the handler up to its first await.  The text of the invalid-duration
\* answer stands for the template with the duration's string in it.
AddBegin(p, id, description, duration, date, now) ==
  LET q == [IdlePend EXCEPT !.id = id, !.description = description,
                            !.duration = duration, !.rawDate = date]
      req == AddReq(q)
  IN  /\ pend[p].pc = "idle"
      /\ IF ~ObjectIdIsValid(id)
         THEN resp' = Text(req, "Invalid user ID.", FALSE) /\ pend' = pend
         ELSE IF Truthy(date) /\ date.t # "str"
         THEN resp' = Uncaught(req) /\ pend' = pend
         ELSE IF ~Truthy(duration) \/ ~Truthy(description)
         THEN resp' = Text(req, "Missing fields.", FALSE) /\ pend' = pend
         ELSE IF ~isValidDuration(duration)
         THEN resp' = Text(req, "The duration is not valid; must be in minutes", FALSE)
              /\ pend' = pend
         ELSE /\ Len(exercises) + Cardinality({r \in Procs : pend[r].pc # "idle"})
                   < MaxExercises
              /\ pend' = [pend EXCEPT ![p] =
                            [q EXCEPT !.pc = "find", !.date = checkDate(date, now, tz)]]
              /\ resp' = NoResp
      /\ UNCHANGED <<tz, users, exercises, added, arg, ret>>

\* User.findById resolves or rejects
AddFind(p, ok) ==
  LET q == pend[p] IN
  /\ q.pc = "find"
  /\ IF ~ok
     THEN /\ resp' = Text(AddReq(q), "Unable to add exercise.", TRUE)
          /\ pend' = [pend EXCEPT ![p] = IdlePend]
     ELSE IF ~HasUser(q.id)
     THEN /\ resp' = Text(AddReq(q), "User not found.", FALSE)
          /\ pend' = [pend EXCEPT ![p] = IdlePend]
     ELSE /\ pend' = [pend EXCEPT ![p] = [q EXCEPT !.pc = "create", !.user = FindUser(q.id)]]
          /\ resp' = resp
  /\ UNCHANGED <<tz, users, exercises, added, arg, ret>>

\* the document Exercise.create builds from the handler's locals
NewExerciseOther(q) ==
  [id |-> Len(exercises) + 1, userId |-> (q.id % MaxUsers) + 1,
   description |-> CastString(q.description),
   duration |-> CastNumber(q.duration), date |-> CastDate(q.date, tz)]

NewExercise(q) ==
  [id |-> Len(exercises) + 1, userId |-> q.id,
   description |-> CastString(q.description),
   duration |-> CastNumber(q.duration), date |-> CastDate(q.date, tz)]

\* Exercise.create resolves or rejects; then user.log.push(newExercise)
AddCreate(p, ok) ==
  LET q == pend[p]
      valid == /\ CanCastString(q.description)
               /\ CanCastNumber(q.duration)
               /\ CastDate(q.date, tz).ok
  IN  /\ q.pc = "create"
      /\ IF ok /\ valid
         THEN /\ Len(exercises) < MaxExercises
              /\ exercises' = Append(exercises, NewExercise(q))
              /\ pend' = [pend EXCEPT ![p] =
                            [q EXCEPT !.pc = "save", !.newExercise = NewExercise(q),
                                      !.user.log = Append(q.user.log, NewExercise(q))]]
              /\ resp' = resp
         ELSE /\ exercises' = exercises
              /\ pend' = [pend EXCEPT ![p] = IdlePend]
              /\ resp' = Text(AddReq(q), "Unable to add exercise.", ~ok)
      /\ UNCHANGED <<tz, users, added, arg, ret>>

\* what user.save() writes: the pushed subdocument, appended to the stored log
SaveUserPrepend(us, q) ==
  [i \in 1..Len(us) |->
     IF us[i].id = q.user.id
     THEN [us[i] EXCEPT !.log = <<q.newExercise>> \o us[i].log]
     ELSE us[i]]

SaveUserOverwrite(us, q) ==
  [i \in 1..Len(us) |->
     IF us[i].id = q.user.id
     THEN [us[i] EXCEPT !.log = q.user.log]
     ELSE us[i]]

SaveUser(us, q) ==
  [i \in 1..Len(us) |->
     IF us[i].id = q.user.id
     THEN [us[i] EXCEPT !.log = Append(us[i].log, q.newExercise)]
     ELSE us[i]]

AddResponseBody(q) ==
  [id |-> q.user.id, username |-> q.user.username,
   description |-> q.newExercise.description,
   duration |-> q.newExercise.duration,
   date |-> toDateString(q.newExercise.date, tz)]

Rendered(entry) ==
  [description |-> entry.description, duration |-> entry.duration,
   date |-> toDateString(entry.date, tz)]

\* user.save() resolves or rejects; then the response
AddSaveRollback(p, ok) ==
  LET q == pend[p] IN
  /\ q.pc = "save"
  /\ pend' = [pend EXCEPT ![p] = IdlePend]
  /\ IF ok
     THEN /\ users' = SaveUser(users, q)
          /\ resp' = Object(AddReq(q), AddResponseBody(q))
          /\ added' = [added EXCEPT ![q.user.id] =
                         Append(@, [req |-> AddReq(q), body |-> AddResponseBody(q)])]
          /\ exercises' = exercises
     ELSE /\ users' = users
          /\ resp' = Text(AddReq(q), "Unable to add exercise.", TRUE)
          /\ added' = added
          /\ exercises' = SelectSeq(exercises, LAMBDA e : e.id # q.newExercise.id)
  /\ UNCHANGED <<tz, arg, ret>>

AddSave(p, ok) ==
  LET q == pend[p] IN
  /\ q.pc = "save"
  /\ pend' = [pend EXCEPT ![p] = IdlePend]
  /\ IF ok
     THEN /\ users' = SaveUser(users, q)
          /\ resp' = Object(AddReq(q), AddResponseBody(q))
          /\ added' = [added EXCEPT ![q.user.id] =
                         Append(@, [req |-> AddReq(q), body |-> AddResponseBody(q)])]
     ELSE /\ users' = users
          /\ resp' = Text(AddReq(q), "Unable to add exercise.", TRUE)
          /\ added' = added
  /\ UNCHANGED <<tz, exercises, arg, ret>>

\* ------------------------------------------------ GET /api/users/:_id/logs

\* a >= b and a <= b on Dates: false when either is Invalid Date
DateLE(a, b) == a.ok /\ b.ok /\ a.t <= b.t

\* logs.filter(...) of the range branch
RangeFilter(logs, from, to) ==
  LET fromDate == ParseISODate(from.s)
      toDate == ParseISODate(to.s)
  IN  SelectSeq(logs, LAMBDA log : DateLE(fromDate, log.date) /\ DateLE(log.date, toDate))

\* Array.prototype.slice(0, end): NaN is 0, a negative end counts from the end
SliceLast(logs, end) ==
  LET len == Len(logs)
      k == IF end.t = "nan" THEN 0
           ELSE IF end.m < 0 THEN Max(len + end.m, 0) ELSE Min(end.m, len)
  IN  SubSeq(logs, len - k + 1, len)

Slice(logs, end) ==
  LET len == Len(logs)
      k == IF end.t = "nan" THEN 0
           ELSE IF end.m < 0 THEN Max(len + end.m, 0) ELSE Min(end.m, len)
  IN  SubSeq(logs, 1, k)

FormattedLogs(logs) == [i \in 1..Len(logs) |-> Rendered(logs[i])]

\* the log the handler answers with
LogsOf(user, from, to, limit) ==
  LET ranged == IF Truthy(from) /\ Truthy(to)
                THEN RangeFilter(user.log, from, to) ELSE user.log
      limited == IF Truthy(limit) THEN Slice(ranged, ParseInt(limit)) ELSE ranged
  IN  FormattedLogs(limited)

GetLog(id, from, to, limit, ok) ==
  LET req == [op |-> "logs", id |-> id, from |-> from, to |-> to, limit |-> limit] IN
  /\ resp' =
       IF ~ObjectIdIsValid(id) \/ ~ok
       THEN Text(req, "Could not get user las log data.", ~ok)
       ELSE IF ~HasUser(id) THEN Text(req, "User not found.", FALSE)
       ELSE LET formattedLogs == LogsOf(FindUser(id), from, to, limit) IN
            Object(req, [id |-> id, username |-> FindUser(id).username,
                         count |-> Len(formattedLogs), log |-> formattedLogs])
  /\ UNCHANGED <<tz, users, exercises, pend, added, arg, ret>>

\* the client receives the response
Deliver ==
  /\ resp # NoResp
  /\ resp' = NoResp
  /\ UNCHANGED <<tz, users, exercises, pend, added, arg, ret>>

\* ----------------------------------------------------------- specification

Init ==
  /\ tz \in TzOffsets
  /\ users = << >>
  /\ exercises = << >>
  /\ pend = [p \in Procs |-> IdlePend]
  /\ resp = NoResp
  /\ added = [u \in ObjectIds |-> << >>]
  /\ arg = Undef
  /\ ret = "none"

\* requests do not overlap: one is sent when the response to the one before
\* has been received
Next ==
  \/ /\ Quiet
     /\ \E username \in UsernameInputs, outcome \in {"ok", "dup", "err"} :
          CreateUser(username, outcome)
  \/ /\ Quiet
     /\ \E ok \in BOOLEAN : ListUsers(ok)
  \/ /\ Quiet
     /\ \E id \in IdInputs, from \in RangeInputs, to \in RangeInputs,
           limit \in LimitInputs, ok \in BOOLEAN :
          GetLog(id, from, to, limit, ok)
  \/ /\ Quiet
     /\ \E p \in SeqProcs, id \in IdInputs, description \in DescriptionInputs,
           duration \in DurationInputs, date \in DateInputs, now \in ClockInstants :
          AddBegin(p, id, description, duration, date, now)
  \/ \E p \in SeqProcs, ok \in BOOLEAN : AddFind(p, ok)
  \/ \E p \in SeqProcs, ok \in BOOLEAN : AddCreate(p, ok)
  \/ \E p \in SeqProcs, ok \in BOOLEAN : AddSave(p, ok)
  \/ Deliver

Spec == Init /\ [][Next]_vars

\* ------------------------------------------------ overlapping Add Exercise

\* the request bodies sent while requests overlap
OverlapDurations == {IntV(30)}
OverlapDates == {Jan01, Jan31}

\* requests overlap: the server takes a request while the handlers of others
\* are suspended at an await, and resumes the suspended handlers in any order.
\* Each response is received before the server takes its next step.
NextOverlap ==
  \/ /\ resp = NoResp
     /\ \E username \in UsernameInputs, outcome \in {"ok", "dup", "err"} :
          CreateUser(username, outcome)
  \/ /\ resp = NoResp
     /\ \E id \in IdInputs, ok \in BOOLEAN : GetLog(id, Undef, Undef, Undef, ok)
  \/ /\ resp = NoResp
     /\ \E p \in Procs, id \in IdInputs, description \in DescriptionInputs,
           duration \in OverlapDurations, date \in OverlapDates,
           now \in ClockInstants :
          AddBegin(p, id, description, duration, date, now)
  \/ /\ resp = NoResp
     /\ \E p \in Procs, ok \in BOOLEAN : AddFind(p, ok)
  \/ /\ resp = NoResp
     /\ \E p \in Procs, ok \in BOOLEAN : AddCreate(p, ok)
  \/ /\ resp = NoResp
     /\ \E p \in Procs, ok \in BOOLEAN : AddSave(p, ok)
  \/ Deliver

SpecOverlap == Init /\ [][NextOverlap]_vars

\* ------------------------------------------- the validator, on its own

DurationChars == {"0", "1", "6", "-", ".", "a", " "}
DurationStrings == UNION {[1..n -> DurationChars] : n \in 0..MaxStrLen}
DurationNumbers ==
  {IntV(k) : k \in {0 - 1, 0, 30, 600, 601}}
    \cup {Num(k, 1) : k \in {0 - 5, 5, 305, 6005}}
ValidatorArgs ==
  {Str(s) : s \in DurationStrings} \cup DurationNumbers \cup DurationInputs
    \cup {Undef, Obj}

InitValidator ==
  /\ arg \in ValidatorArgs
  /\ ret = "none"
  /\ tz = 0
  /\ users = << >>
  /\ exercises = << >>
  /\ pend = [p \in Procs |-> IdlePend]
  /\ resp = NoResp
  /\ added = [u \in ObjectIds |-> << >>]

CallValidator ==
  /\ ret = "none"
  /\ ret' = IF isValidDuration(arg) THEN "true" ELSE "false"
  /\ UNCHANGED <<tz, users, exercises, pend, resp, added, arg>>

SpecValidator == InitValidator /\ [][CallValidator]_vars

\* ------------------------------------------------------------------ claims

\* the number a value stands for: itself, or Number(string) of a non-blank string
NumericValue(v) ==
  IF v.t = "num" THEN v
  ELSE IF v.t = "str" /\ TrimLeft(v.s) # << >> THEN StringToNumber(v.s)
  ELSE NaN

InRange0To600(v) ==
  NumLE(IntV(0), NumericValue(v)) /\ NumLE(NumericValue(v), IntV(600))

\* C1: isValidDuration returns true exactly for the values (numbers or numeric
\* strings) that lie in [0,600]: false below 0, above 600 and for non-numeric
\* values.
C1_ValidIffInRange ==
  ret # "none" => ((ret = "true") <=> InRange0To600(arg))

\* the answer to a Get Log request that found its user
IsLogAnswer == resp.req.op = "logs" /\ resp.kind = "object"
\* the answer to an Add Exercise request that succeeded
IsAddAnswer == resp.req.op = "add" /\ resp.kind = "object"

\* the calendar day (a day number) an entry was added with: the local day of
\* its stored instant
EntryDay(entry) == (entry.date.t - tz) \div 1440
\* the calendar day a from or to parameter names
RangeDay(v) == ParseISODate(v.s).t \div 1440

\* C2: with from and to both present (and no limit), Get Log returns exactly
\* the entries whose calendar day lies in [from, to], both ends included, in
\* insertion order, whatever the server's timezone offset.
C2_RangeIsInclusiveByDay ==
  (IsLogAnswer /\ Truthy(resp.req.from) /\ Truthy(resp.req.to)
     /\ ~Truthy(resp.req.limit))
  => resp.body.log =
       FormattedLogs(SelectSeq(FindUser(resp.req.id).log,
         LAMBDA entry : /\ RangeDay(resp.req.from) <= EntryDay(entry)
                        /\ EntryDay(entry) <= RangeDay(resp.req.to)))

\* the limit of the answered Get Log request parses to an integer n >= 0
LimitParses ==
  /\ IsLogAnswer
  /\ Truthy(resp.req.limit)
  /\ NumLE(IntV(0), ParseInt(resp.req.limit))

\* C3: with a limit that parses to n >= 0, Get Log returns the first
\* min(n, k) entries of the (possibly range-filtered) sequence of length k,
\* in order, and never more than n.
C3_LimitTakesFirst ==
  LimitParses =>
    LET n == ParseInt(resp.req.limit).m
        base == LogsOf(FindUser(resp.req.id), resp.req.from, resp.req.to, Undef)
    IN  /\ resp.body.log = SubSeq(base, 1, Min(n, Len(base)))
        /\ Len(resp.body.log) <= n
        /\ resp.body.count = Len(resp.body.log)

\* a limit below the length of the sequence cut it, and kept an entry
C3_Witness ==
  /\ LimitParses
  /\ Len(resp.body.log) = 1
  /\ Len(LogsOf(FindUser(resp.req.id), resp.req.from, resp.req.to, Undef)) = 2
  /\ FindUser(resp.req.id).log[1].date # FindUser(resp.req.id).log[2].date

\* the answered Get Log request had no limit and not both of from and to
IsFullLogAnswer ==
  /\ IsLogAnswer
  /\ ~Truthy(resp.req.limit)
  /\ ~(Truthy(resp.req.from) /\ Truthy(resp.req.to))

AddedEntries(id) ==
  [i \in 1..Len(added[id]) |->
     [description |-> added[id][i].body.description,
      duration |-> added[id][i].body.duration,
      date |-> added[id][i].body.date]]

IsPrefix(a, b) == Len(a) <= Len(b) /\ SubSeq(b, 1, Len(a)) = a

\* C4: when requests do not overlap, Get Log without a limit and without both
\* from and to returns exactly the exercises of the successful Add Exercise
\* requests on that user, in the order they were added, with count their
\* number; and no step removes, reorders or changes an entry of a stored log.
C4_FullLogIsWhatWasAdded ==
  /\ [](IsFullLogAnswer =>
          /\ resp.body.log = AddedEntries(resp.req.id)
          /\ resp.body.count = Len(resp.body.log))
  /\ [][/\ Len(users') >= Len(users)
        /\ \A i \in 1..Len(users) :
             /\ users'[i].id = users[i].id
             /\ IsPrefix(users[i].log, users'[i].log)]_vars

\* a full log of two different entries was returned
C4_Witness ==
  /\ IsFullLogAnswer
  /\ resp.body.count = 2
  /\ resp.body.log[1] # resp.body.log[2]

\* an Add Exercise request on an existing user, with a non-empty description
\* and a date that is absent or a string, during which no store operation
\* failed, has ended
AddOnExistingUserEnded ==
  /\ resp.req.op = "add"
  /\ HasUser(resp.req.id)
  /\ resp.req.description.t = "str" /\ resp.req.description.s # << >>
  /\ resp.req.date.t \in {"undef", "str"}
  /\ ~resp.failed

\* C5: Add Exercise on an existing user with a non-empty description succeeds
\* (creates the exercise and appends it to the log) if and only if
\* isValidDuration(duration) is true.
C5_AcceptedIffValidDuration ==
  AddOnExistingUserEnded =>
    ((resp.kind = "object") <=> isValidDuration(resp.req.duration))

\* a Get Log request, or an Add Exercise request with a description, a valid
\* duration and a date that is absent or a string, for an id that references
\* no user has ended, and no store operation failed
UnknownUserRequestEnded ==
  /\ resp.req.op \in {"logs", "add"}
  /\ ~HasUser(resp.req.id)
  /\ ~resp.failed
  /\ resp.req.op = "add" =>
       /\ Truthy(resp.req.description)
       /\ Truthy(resp.req.duration) /\ isValidDuration(resp.req.duration)
       /\ resp.req.date.t \in {"undef", "str"}

\* C6: Get Log and Add Exercise for an id that references no user, whatever
\* the form of the id, answer "User not found.".
C6_UnknownUserIsNotFound ==
  UnknownUserRequestEnded => (resp.kind = "text" /\ resp.text = "User not found.")

\* C7: every Exercise in a User's log has userId equal to that User's id.
C7_LogEntriesBelongToUser ==
  \A i \in 1..Len(users) : \A j \in 1..Len(users[i].log) :
    users[i].log[j].userId = users[i].id

\* the second user has an entry in its log
C7_Witness ==
  \E i \in 1..Len(users) : users[i].id = 2 /\ users[i].log # << >>

IsWholeMinutes0To600(d) ==
  IsInteger(d) /\ NumLE(IntV(0), d) /\ NumLE(d, IntV(600))

\* C8: every stored Exercise, in the Exercise collection or in a User's log,
\* has a duration that is an integer between 0 and 600 inclusive.
C8_StoredDurationsAreWholeMinutes ==
  /\ \A k \in 1..Len(exercises) : IsWholeMinutes0To600(exercises[k].duration)
  /\ \A i \in 1..Len(users) : \A j \in 1..Len(users[i].log) :
       IsWholeMinutes0To600(users[i].log[j].duration)

\* the display string of the calendar day a year-month-day input names
\* (1 January 2023 was a Sunday, 31 January 2023 a Tuesday)
DisplayOfInput(date) ==
  IF date = Jan01
  THEN [wd |-> "Sun", mon |-> "Jan", dd |-> <<"0", "1">>, yyyy |-> <<"2", "0", "2", "3">>]
  ELSE [wd |-> "Tue", mon |-> "Jan", dd |-> <<"3", "1">>, yyyy |-> <<"2", "0", "2", "3">>]

IsDayInput(date) == date \in {Jan01, Jan31}

\* C9: for every year-month-day input D and every timezone offset, Add
\* Exercise answers with the display string of day D, and a later Get Log
\* renders that entry with the same string.
C9_DisplayDayIsInputDay ==
  /\ (IsAddAnswer /\ IsDayInput(resp.req.date))
       => resp.body.date = DisplayOfInput(resp.req.date)
  /\ IsFullLogAnswer =>
       \A i \in 1..Len(resp.body.log) :
         (i <= Len(added[resp.req.id]) /\ IsDayInput(added[resp.req.id][i].req.date))
           => resp.body.log[i].date = DisplayOfInput(added[resp.req.id][i].req.date)

\* west of UTC, Get Log rendered an entry that was added with date 2023-01-31
C9_Witness ==
  /\ tz > 0
  /\ IsFullLogAnswer
  /\ \E i \in 1..Len(resp.body.log) :
       /\ added[resp.req.id][i].req.date = Jan31
       /\ resp.body.log[i].date = DisplayOfInput(Jan31)

\* C10: every request that ends has been answered by the handler (one
\* res.json call): no error leaves the handler.
C10_EveryRequestIsAnswered ==
  resp # NoResp => resp.kind \in {"object", "text", "message"}

\* the stored log of the user with this id, in a users collection
StoredLog(us, id) == us[CHOOSE i \in 1..Len(us) : us[i].id = id].log

\* handler p's user.save() resolves in this step and p responds with success
SaveSucceeds(p) ==
  /\ pend[p].pc = "save"
  /\ pend'[p].pc = "idle"
  /\ resp'.kind = "object"

\* the log handler p fetched, before its own push
FetchedLog(p) == SubSeq(pend[p].user.log, 1, Len(pend[p].user.log) - 1)

\* another Add Exercise on the same user saved after handler p fetched the
\* user and before p saves: both had fetched the user before either saved
SavedSinceFetch(p) == Len(StoredLog(users, pend[p].user.id)) > Len(FetchedLog(p))

InLog(log, entry) == \E j \in 1..Len(log) : log[j].id = entry.id

\* C11 (as the claim words it): when two Add Exercise requests on the same
\* user both fetch the user before either saves it and both respond with
\* success, the log afterwards contains only one of the two new exercises:
\* the exercise of the later save, and no longer the one saved in between.
C11_OverlapLosesAnUpdate ==
  [][\A p \in Procs :
       (SaveSucceeds(p) /\ SavedSinceFetch(p)) =>
         LET before == StoredLog(users, pend[p].user.id)
             after == StoredLog(users', pend[p].user.id)
         IN  /\ InLog(after, pend[p].newExercise)
             /\ \A k \in (Len(FetchedLog(p)) + 1)..Len(before) :
                  ~InLog(after, before[k])]_vars

\* C11: when two Add Exercise requests on the same user both fetch the user
\* before either saves it, both respond with success and the log afterwards
\* contains both new exercises, in the order of their saves: the later save
\* appends to the stored log, and every Add Exercise that responded with
\* success is in its user's log.
C11_OverlapKeepsBothUpdates ==
  /\ [](\A i \in 1..Len(users) :
          FormattedLogs(users[i].log) = AddedEntries(users[i].id))
  /\ [][\A p \in Procs :
          (SaveSucceeds(p) /\ SavedSinceFetch(p)) =>
            LET before == StoredLog(users, pend[p].user.id)
                after == StoredLog(users', pend[p].user.id)
            IN  /\ after = Append(before, pend[p].newExercise)
                /\ \A k \in 1..Len(before) : InLog(after, before[k])]_vars

\* two Add Exercise requests on one user overlapped and both succeeded: the
\* exercise created second was saved first (so each handler fetched the user
\* before the other saved), and the log holds both
C11_Witness ==
  \E i \in 1..Len(users) :
    /\ Len(users[i].log) = 2
    /\ users[i].log[1].id > users[i].log[2].id
    /\ Len(added[users[i].id]) = 2
    /\ AllIdle

\* handler p's user.save() rejects in this step
SaveFails(p) ==
  /\ pend[p].pc = "save"
  /\ pend'[p].pc = "idle"
  /\ users' = users

\* an Exercise record that is in no user's log and that no suspended handler
\* is about to save
Orphan(us, pd, e) ==
  /\ \A i \in 1..Len(us) : ~InLog(us[i].log, e)
  /\ \A p \in Procs : ~(pd[p].pc = "save" /\ pd[p].newExercise.id = e.id)

\* C12: when the User save fails after the Exercise write succeeded, the
\* handler responds "Unable to add exercise." and ends; the Exercise record it
\* created stays in the store and is in no user's log (nothing is rolled
\* back), and no later step puts such a record into a log or removes it
\* (nothing is retried).
C12_SaveFailureLeavesOrphan ==
  /\ [][\A p \in Procs :
          SaveFails(p) =>
            /\ resp' = Text(AddReq(pend[p]), "Unable to add exercise.", TRUE)
            /\ pend'[p] = IdlePend
            /\ exercises' = exercises
            /\ \E k \in 1..Len(exercises') : exercises'[k] = pend[p].newExercise
            /\ Orphan(users', pend', pend[p].newExercise)]_vars
  /\ [][\A k \in 1..Len(exercises) :
          Orphan(users, pend, exercises[k]) =>
            /\ k <= Len(exercises')
            /\ exercises'[k] = exercises[k]
            /\ Orphan(users', pend', exercises[k])]_vars

\* an Add Exercise request was just answered "Unable to add exercise." after
\* a store failure, and the Exercise record of that request is in the store
\* and in no user's log
C12_Witness ==
  /\ resp # NoResp
  /\ resp.req.op = "add"
  /\ resp.text = "Unable to add exercise."
  /\ resp.failed
  /\ Len(exercises) > 0
  /\ exercises[Len(exercises)].userId = resp.req.id
  /\ exercises[Len(exercises)].description = CastString(resp.req.description)
  /\ exercises[Len(exercises)].duration = CastNumber(resp.req.duration)
  /\ Orphan(users, pend, exercises[Len(exercises)])

====
